---- MODULE Spec2Model ----
(***************************************************************************)
(* Model of mouse_modes/tray_icon/tray_icon.py: the configuration store,   *)
(* the mode pointer, the icon cache, the tray shell and its configuration  *)
(* dialog, and the single-instance lock.                                   *)
(*                                                                         *)
(* A configuration (config["modes"]) is an insertion-ordered dict: it is   *)
(* modelled as a sequence of records [name, color, buttons]; buttons is an *)
(* insertion-ordered dict too, a sequence of records [key, path].          *)
(***************************************************************************)
EXTENDS Integers, Sequences, FiniteSets, TLC

VARIABLES
    proc,            \* process -> "idle" | "tray" | "refused" | "ended"
    lock_holder,     \* holder of the lock on LOCK_FILE: a process or NoProc
    CONFIG_FILE,     \* content of ~/.config/mouse_modes/config.json
    MODE_FILE,       \* content of /tmp/mouse_mode_current
    scripts,         \* script files under PROJECT_DIR/mouse_modes/<mode>/
    readme,          \* content of PROJECT_DIR/mouse_modes/README.md
    icon_cache,      \* colors whose cache file exists under ICON_DIR
    DEFAULT_CONFIG,  \* value of the module-level dict DEFAULT_CONFIG
    loaded,          \* value of the dict json.load returned last
    config_ref,      \* which of the two dicts self.config refers to
    mode_actions,    \* names of the "Switch to <mode>" menu entries
    tooltip,         \* mode named in the tray tooltip
    checked,         \* names of the menu entries whose isChecked() is true
    dialog,          \* "none" | "config": the modal dialog that is open
    mode_list,       \* labels of the rows of ConfigDialog.mode_list
    edits,           \* number of changes made to the configuration so far
    shown,           \* what the last handler showed: the text of its message
                     \* box or the exception it printed, "" if nothing
    ret              \* result of the last direct call of a pure function

vars == <<proc, lock_holder, CONFIG_FILE, MODE_FILE, scripts, readme, icon_cache,
          DEFAULT_CONFIG, loaded, config_ref, mode_actions, tooltip, checked,
          dialog, mode_list, edits, shown, ret>>

procVars == <<proc, lock_holder>>
fileVars == <<CONFIG_FILE, MODE_FILE, scripts, readme, icon_cache>>
trayVars == <<DEFAULT_CONFIG, loaded, config_ref, mode_actions, tooltip, checked>>
dlgVars  == <<dialog, mode_list>>

----------------------------------------------------------------------------
(* Bounds of the model *)

\* most modes a configuration may hold (add_mode is not offered beyond it)
MaxModes == 4
\* most changes of the configuration in one run of the tray
MaxEdits == 1
\* number of launch attempts in the lock specification
NumProcs == 3

----------------------------------------------------------------------------
(* Python sequences and dicts *)

Range(s) == {s[i] : i \in 1..Len(s)}

\* list(d.keys())
Keys(d) == [i \in 1..Len(d) |-> d[i].name]

KeySet(d) == {d[i].name : i \in 1..Len(d)}

\* d[k], for k in d
Get(d, k) == d[CHOOSE i \in 1..Len(d) : d[i].name = k]

\* d[k] = v: in place when the key exists, appended otherwise
SetItem(d, k, v) ==
    IF k \in KeySet(d)
    THEN [i \in 1..Len(d) |-> IF d[i].name = k THEN v ELSE d[i]]
    ELSE Append(d, v)

\* del d[k]
DelItem(d, k) == SelectSeq(d, LAMBDA m : m.name # k)

\* list.index(x), 0-based, for x in the list
ListIndex(s, x) == (CHOOSE i \in 1..Len(s) : s[i] = x /\ \A j \in 1..(i-1) : s[j] # x) - 1

----------------------------------------------------------------------------
(* The mode pointer file and int(f.read().strip()) *)

Digits == <<"0", "1", "2", "3", "4", "5", "6", "7", "8", "9">>
IsDigit(c) == c \in Range(Digits)
DigitVal(c) == (CHOOSE i \in 1..10 : Digits[i] = c) - 1
IsSpace(c) == c \in {" ", "\n", "\t"}

RECURSIVE LStrip(_)
LStrip(s) == IF s # <<>> /\ IsSpace(Head(s)) THEN LStrip(Tail(s)) ELSE s

RECURSIVE RStrip(_)
RStrip(s) ==
    IF s # <<>> /\ IsSpace(s[Len(s)]) THEN RStrip(SubSeq(s, 1, Len(s) - 1)) ELSE s

\* str.strip()
Strip(s) == RStrip(LStrip(s))

RECURSIVE DigitsValue(_)
DigitsValue(s) ==
    IF s = <<>> THEN 0
    ELSE 10 * DigitsValue(SubSeq(s, 1, Len(s) - 1)) + DigitVal(s[Len(s)])

AllDigits(s) == s # <<>> /\ \A i \in 1..Len(s) : IsDigit(s[i])

\* int(s): an optional sign and decimal digits; anything else is a ValueError
IntParses(s) ==
    \/ AllDigits(s)
    \/ s # <<>> /\ Head(s) \in {"-", "+"} /\ AllDigits(Tail(s))

IntValue(s) ==
    IF Head(s) = "-" THEN 0 - DigitsValue(Tail(s))
    ELSE IF Head(s) = "+" THEN DigitsValue(Tail(s))
    ELSE DigitsValue(s)

\* str(index), for the indexes switch_to_mode writes
Str(n) == IF n < 10 THEN <<Digits[n + 1]>> ELSE <<Digits[(n \div 10) + 1], Digits[(n % 10) + 1]>>

NoPointer == [kind |-> "missing", chars |-> <<>>]
BadPointer == [kind |-> "unreadable", chars |-> <<>>]
PointerText(s) == [kind |-> "text", chars |-> s]

\* get_current_mode_index without its try/except: the parse error escapes
get_current_mode_index_uncaught(file) ==
    IF file.kind = "missing" THEN [raised |-> FALSE, value |-> 0]
    ELSE IF file.kind = "text" /\ IntParses(Strip(file.chars))
         THEN [raised |-> FALSE, value |-> IntValue(Strip(file.chars))]
         ELSE [raised |-> TRUE, value |-> 0]

\* get_current_mode_index(), reading `file`
get_current_mode_index(file) ==
    IF file.kind = "missing" THEN [raised |-> FALSE, value |-> 0]
    ELSE IF file.kind = "text" /\ IntParses(Strip(file.chars))
         THEN [raised |-> FALSE, value |-> IntValue(Strip(file.chars))]
         ELSE [raised |-> FALSE, value |-> 0]

\* modes[index] for a list index that may be out of range
ListItem(s, index) ==
    IF 0 <= index /\ index < Len(s) THEN [raised |-> FALSE, value |-> s[index + 1]]
    ELSE IF 0 - Len(s) <= index /\ index < 0
         THEN [raised |-> FALSE, value |-> s[Len(s) + index + 1]]
         ELSE [raised |-> TRUE, value |-> "IndexError"]

\* the range test written 0 <= index <= len(modes)
mode_name_at_off_by_one(modes, index) ==
    IF 0 <= index /\ index <= Len(modes) THEN ListItem(modes, index)
    ELSE [raised |-> FALSE, value |-> "default"]

\* the fallback written modes[0]
mode_name_at_first(modes, index) ==
    IF 0 <= index /\ index < Len(modes) THEN ListItem(modes, index)
    ELSE ListItem(modes, 0)

\* the body of get_current_mode_name after the index is read
mode_name_at(modes, index) ==
    IF 0 <= index /\ index < Len(modes) THEN ListItem(modes, index)
    ELSE [raised |-> FALSE, value |-> "default"]

\* get_current_mode_name(config), reading `file`
get_current_mode_name(config, file) ==
    LET index == get_current_mode_index(file)
    IN  IF index.raised THEN [raised |-> TRUE, value |-> "ValueError"]
        ELSE mode_name_at(Keys(config), index.value)

----------------------------------------------------------------------------
(* Configurations, the configuration file, json.load and json.dump *)

ButtonNames == <<"upper_left", "lower_left", "upper_right", "lower_right">>

\* os.path.join(PROJECT_DIR, "mouse_modes", dir, base + ".sh")
ScriptPath(dir, base) == [dir |-> dir, base |-> base]

\* the "buttons" dict of a built-in or freshly added mode
StdButtons(mode) ==
    [i \in 1..4 |-> [key |-> ButtonNames[i], path |-> ScriptPath(mode, ButtonNames[i])]]

Mode(name, color, buttons) == [name |-> name, color |-> color, buttons |-> buttons]

\* the literal DEFAULT_CONFIG["modes"]
BuiltinModes ==
    << Mode("default", "#3498db", StdButtons("default")),
       Mode("alternate", "#e74c3c", StdButtons("alternate")),
       Mode("custom_mode", "#2ecc71", StdButtons("custom_mode")) >>

\* mode_data.get("color", "#3498db"): a mode may lack the "color" key
ModeColor(mode) == IF mode.color = "absent" THEN "#3498db" ELSE mode.color

\* The file's text: how it is laid out (fmt) and the "modes" members it lists,
\* in order, a name possibly more than once. "indent4" is what json.dump
\* writes; "compact" is other well-formed JSON; the rest does not parse.
NoFile == [fmt |-> "missing", modes |-> <<>>]
Text(fmt, modes) == [fmt |-> fmt, modes |-> modes]
JsonFormats == {"indent4", "compact"}

RECURSIVE DictFromPairs(_, _)
DictFromPairs(pairs, acc) ==
    IF pairs = <<>> THEN acc
    ELSE DictFromPairs(Tail(pairs), SetItem(acc, Head(pairs).name, Head(pairs)))

\* json.load(f): a repeated name keeps its first place and its last value
json_load(text) ==
    IF text.fmt \in JsonFormats
    THEN [raised |-> FALSE, value |-> DictFromPairs(text.modes, <<>>)]
    ELSE [raised |-> TRUE, value |-> <<>>]

\* f.write(str(config)): Python's repr, which json.load rejects
python_repr(config) == Text("repr", config)

\* json.dump(config, f, indent=4)
json_dump(config) == Text("indent4", config)

\* save_config(config): the new content of CONFIG_FILE
save_config(config) == json_dump(config)

\* load_config with the bad file replaced by the default on a parse error
load_config_overwriting(file, default) ==
    IF file.fmt # "missing"
    THEN IF json_load(file).raised
         THEN [ref |-> "DEFAULT_CONFIG", value |-> default, file |-> save_config(default),
               raised |-> FALSE]
         ELSE [ref |-> "loaded", value |-> json_load(file).value, file |-> file,
               raised |-> FALSE]
    ELSE [ref |-> "DEFAULT_CONFIG", value |-> default, file |-> save_config(default),
          raised |-> FALSE]

\* load_config(): the dict returned (ref names the object, value its content)
\* and the content of CONFIG_FILE afterwards
load_config(file, default) ==
    IF file.fmt # "missing"
    THEN IF json_load(file).raised
         THEN [ref |-> "DEFAULT_CONFIG", value |-> default, file |-> file,
               raised |-> FALSE]
         ELSE [ref |-> "loaded", value |-> json_load(file).value, file |-> file,
               raised |-> FALSE]
    ELSE [ref |-> "DEFAULT_CONFIG", value |-> default, file |-> save_config(default),
          raised |-> FALSE]

----------------------------------------------------------------------------
(* Files of the project directory *)

Absent == [mode |-> "absent", text |-> ""]
File(mode, text) == [mode |-> mode, text |-> text]

\* the files the program reads or writes: <zone>.sh in a mode's directory
\* and button_<zone>.sh in PROJECT_DIR (".")
ModeDirs == {"default", "alternate", "custom_mode", "work"}
ScriptFiles ==
    [dir : ModeDirs, base : Range(ButtonNames) \cup {"lower_middle"}]
        \cup [dir : {"."}, base : {"button_lower_middle", "button_lower_right"}]

\* a replacement that also puts the old zone back where the new one stands
ReplaceZone_swapping(text) == IF text = "lm" THEN "lr" ELSE IF text = "lr" THEN "lm" ELSE text

\* content.replace("lower_middle", "lower_right").replace("Lower Middle", "Lower Right")
\* on a text that mentions the old zone ("lm") or does not
ReplaceZone(text) == IF text = "lm" THEN "lr" ELSE text

\* the project as shipped today: four executable scripts per built-in mode
CurrentLayout ==
    [f \in ScriptFiles |->
        IF f.dir \in KeySet(BuiltinModes) /\ f.base \in Range(ButtonNames)
        THEN File("exec", "lr")
        ELSE IF f.dir = "." /\ f.base = "button_lower_right" THEN File("exec", "lr")
        ELSE Absent]

\* the project before the zone was renamed: lower_middle.sh everywhere, and a
\* directory "work" left behind with one script that is not executable
LegacyLayout ==
    [f \in ScriptFiles |->
        IF f.dir \in KeySet(BuiltinModes) /\ f.base \in {"upper_left", "lower_left", "upper_right"}
        THEN File("exec", "other")
        ELSE IF f.dir \in KeySet(BuiltinModes) /\ f.base = "lower_middle" THEN File("exec", "lm")
        ELSE IF f.dir = "." /\ f.base = "button_lower_middle" THEN File("exec", "lm")
        ELSE IF f.dir = "work" /\ f.base = "upper_left" THEN File("plain", "other")
        ELSE Absent]

----------------------------------------------------------------------------
(* Values that stand for "nothing" *)

Procs == 1..NumProcs
NoProc == 0

NoRet == [fn |-> "none"]

\* the state of everything a direct call of a pure function does not use
Untouched ==
    /\ proc = [p \in Procs |-> "idle"]
    /\ lock_holder = NoProc
    /\ scripts = CurrentLayout
    /\ readme = "lr"
    /\ icon_cache = {}
    /\ DEFAULT_CONFIG = BuiltinModes
    /\ mode_actions = <<>>
    /\ tooltip = ""
    /\ checked = {}
    /\ dialog = "none"
    /\ mode_list = <<>>
    /\ edits = 0
    /\ shown = ""

----------------------------------------------------------------------------
(* Colors: QColor(text), QColor.isValid() and QColor.name() *)

\* QColor(text).isValid(): "#rrggbb" and SVG color names are, other text is not
QColorValid(text) == text \notin {"", "absent", "bogus"}

\* QColor(text).name(): the "#rrggbb" form, lower case
QColorName(text) ==
    IF text = "red" THEN "#ff0000"
    ELSE IF text = "#3498DB" THEN "#3498db"
    ELSE text

\* f"mouse_icon_{color_hex.replace('#', '')}.png": the cache file of a color
IconFile(color_hex) == color_hex

\* create_mouse_icon(color_hex): draws the glyph, saves it to the cache file of
\* the color and returns the pixmap; `cache` is the set of cache files
create_mouse_icon(color_hex, cache) ==
    [drew |-> TRUE, saved |-> TRUE, cache |-> cache \cup {IconFile(color_hex)}]

----------------------------------------------------------------------------
(* The tray shell *)

\* update_icon's lookup self.config["modes"][current_mode]: a KeyError or not
LookupFails(config, name) == name \notin KeySet(config)

\* self.config["modes"]: the content of the dict self.config refers to
Cfg == IF config_ref = "DEFAULT_CONFIG" THEN DEFAULT_CONFIG ELSE loaded

Running == \E p \in Procs : proc[p] = "tray"

\* QAction(f"Switch to {mode_name} mode", self.menu): an action is not
\* checkable unless setCheckable(True) is called, and nothing calls it
QActionCheckable == FALSE

\* QAction.setChecked(b): the state after the call, given the state before;
\* only a checkable action can be checked
setChecked(checkable, was, b) == IF checkable THEN b ELSE was

\* MouseModesTray.update_icon on `config`: the tooltip, the cache and what
\* create_mouse_icon did; raised when a lookup in config["modes"] fails
update_icon(config, file, cache, tip, actions, chk) ==
    LET cur == get_current_mode_name(config, file)
    IN  IF cur.raised \/ LookupFails(config, cur.value)
        THEN [raised |-> TRUE, tooltip |-> tip, cache |-> cache,
              icon |-> "", checked |-> chk]
        ELSE LET color == ModeColor(Get(config, cur.value))
                 made == create_mouse_icon(color, cache)
             IN  [raised |-> FALSE, tooltip |-> cur.value, cache |-> made.cache,
                  icon |-> color,
                  checked |-> {m \in Range(actions) :
                                  setChecked(QActionCheckable, m \in chk, m = cur.value)}]

\* what a handler that ends in update_icon shows
Traceback(u) == IF u.raised THEN "KeyError" ELSE ""

\* the count of configuration changes after a handler has made `newcfg` of
\* the configuration
Edited(newcfg) == IF newcfg # Cfg THEN edits + 1 ELSE edits

\* a write through self.config: it changes the dict self.config refers to
Mutate(newcfg) ==
    IF config_ref = "DEFAULT_CONFIG"
    THEN DEFAULT_CONFIG' = newcfg /\ UNCHANGED loaded
    ELSE loaded' = newcfg /\ UNCHANGED DEFAULT_CONFIG

\* the lock is taken without asking whether another process holds it
lock_acquired_always(holder) == TRUE

\* fcntl.lockf(lock_fp, LOCK_EX | LOCK_NB) succeeds unless another process
\* holds the lock
lock_acquired(holder) == holder = NoProc

\* A launch of the program: the module-level lock, then MouseModesTray()
Launch(p) ==
    /\ proc[p] = "idle"
    /\ IF ~lock_acquired(lock_holder)
       THEN /\ proc' = [proc EXCEPT ![p] = "refused"]
            /\ shown' = "already running"
            /\ UNCHANGED <<lock_holder, fileVars, trayVars, dlgVars, edits, ret>>
       ELSE LET l == load_config(CONFIG_FILE, BuiltinModes)
                u == update_icon(l.value, MODE_FILE, icon_cache, "Mouse Modes",
                                 Keys(l.value), {})
            IN  /\ DEFAULT_CONFIG' = BuiltinModes
                /\ checked' = u.checked
                /\ config_ref' = l.ref
                /\ loaded' = IF l.ref = "loaded" THEN l.value ELSE <<>>
                /\ CONFIG_FILE' = l.file
                /\ mode_actions' = Keys(l.value)
                /\ tooltip' = u.tooltip
                /\ icon_cache' = u.cache
                /\ proc' = [proc EXCEPT ![p] = IF u.raised THEN "ended" ELSE "tray"]
                /\ lock_holder' = IF u.raised THEN NoProc ELSE p
                /\ dialog' = "none"
                /\ mode_list' = <<>>
                /\ edits' = 0
                /\ shown' = Traceback(u)
                /\ UNCHANGED <<MODE_FILE, scripts, readme, ret>>

\* the QTimer's timeout: update_icon
Tick ==
    /\ Running
    /\ LET u == update_icon(Cfg, MODE_FILE, icon_cache, tooltip, mode_actions, checked)
       IN  /\ tooltip' = u.tooltip
           /\ checked' = u.checked
           /\ icon_cache' = u.cache
           /\ shown' = Traceback(u)
    /\ UNCHANGED <<procVars, CONFIG_FILE, MODE_FILE, scripts, readme, DEFAULT_CONFIG,
                   loaded, config_ref, mode_actions, dlgVars, edits, ret>>

\* the pointer files an external actor leaves behind
WrittenPointers == {PointerText(s) : s \in {<<"1">>, <<"5">>}}

\* another program (the button driver) rewrites the pointer file
ExternalPointerWrite(f) ==
    /\ Running
    /\ MODE_FILE # f
    /\ MODE_FILE' = f
    /\ shown' = ""
    /\ UNCHANGED <<procVars, CONFIG_FILE, scripts, readme, icon_cache, trayVars,
                   dlgVars, edits, ret>>

\* tray_activated(Trigger): switch_to_next_mode runs button_volume_up.sh, a
\* script outside this file that rewrites the pointer file
tray_activated(f) ==
    /\ Running
    /\ MODE_FILE' = f
    /\ shown' = ""
    /\ UNCHANGED <<procVars, CONFIG_FILE, scripts, readme, icon_cache, trayVars,
                   dlgVars, edits, ret>>

\* the menu entry "Switch to <mode_name> mode"
switch_to_mode(mode_name) ==
    /\ Running /\ dialog = "none"
    /\ mode_name \in Range(mode_actions)
    /\ LET modes == Keys(Cfg)
       IN  IF mode_name \in Range(modes)
           THEN LET file == PointerText(Str(ListIndex(modes, mode_name)))
                    u == update_icon(Cfg, file, icon_cache, tooltip, mode_actions, checked)
                IN  /\ MODE_FILE' = file
                    /\ tooltip' = u.tooltip
                    /\ checked' = u.checked
                    /\ icon_cache' = u.cache
                    /\ shown' = Traceback(u)
           ELSE /\ shown' = ""
                /\ UNCHANGED <<MODE_FILE, tooltip, checked, icon_cache>>
    /\ UNCHANGED <<procVars, CONFIG_FILE, scripts, readme, DEFAULT_CONFIG, loaded,
                   config_ref, mode_actions, dlgVars, edits, ret>>

\* the color picked in a color dialog (one of basic_colors)
PickColors == {"#e74c3c"}

\* the color of a mode being added: AddModeDialog's own, or a picked one
AddColors == {"#3498db"} \cup PickColors

\* the menu entry "Change Current Mode Color...": the color dialog is accepted
\* with color_hex selected, or cancelled
change_current_mode_color(accepted, color_hex) ==
    /\ Running /\ dialog = "none"
    /\ LET cur == get_current_mode_name(Cfg, MODE_FILE)
       IN  IF cur.raised \/ LookupFails(Cfg, cur.value)
           THEN /\ shown' = "KeyError"
                /\ UNCHANGED <<CONFIG_FILE, icon_cache, DEFAULT_CONFIG, loaded, tooltip,
                               checked, edits>>
           ELSE LET current_color == ModeColor(Get(Cfg, cur.value))
                    preview == create_mouse_icon(current_color, icon_cache).cache
                IN  IF accepted /\ QColorValid(color_hex)
                    THEN LET newcfg == SetItem(Cfg, cur.value,
                                 [Get(Cfg, cur.value) EXCEPT !.color = QColorName(color_hex)])
                             picked == create_mouse_icon(color_hex, preview).cache
                             u == update_icon(newcfg, MODE_FILE, picked, tooltip,
                                              mode_actions, checked)
                         IN  /\ Mutate(newcfg)
                             /\ CONFIG_FILE' = save_config(newcfg)
                             /\ tooltip' = u.tooltip
                             /\ checked' = u.checked
                             /\ icon_cache' = u.cache
                             /\ edits' = Edited(newcfg)
                             /\ shown' = Traceback(u)
                    ELSE /\ icon_cache' = preview
                         /\ shown' = ""
                         /\ UNCHANGED <<CONFIG_FILE, DEFAULT_CONFIG, loaded, tooltip,
                                        checked, edits>>
    /\ edits' <= MaxEdits
    /\ UNCHANGED <<procVars, MODE_FILE, scripts, readme, config_ref, mode_actions,
                   dlgVars, ret>>

\* the menu entry "Quit": the process ends and its lock goes with it
Quit(p) ==
    /\ proc[p] = "tray" /\ dialog = "none"
    /\ proc' = [proc EXCEPT ![p] = "ended"]
    /\ lock_holder' = IF lock_holder = p THEN NoProc ELSE lock_holder
    /\ shown' = ""
    /\ UNCHANGED <<fileVars, trayVars, dlgVars, edits, ret>>

----------------------------------------------------------------------------
(* The configuration dialog *)

\* update_mode_list(): one row per mode, labelled with the mode's name
update_mode_list(config) == Keys(config)

\* QListWidgetItem.text() of a row: the rows are made by QListWidgetItem()
\* and never given a text, only a widget
ItemText(label) == ""

\* text.split(" (")[0], applied only to ItemText, which holds no " ("
SplitParen(text) == text

\* the menu entry "Configure...": ConfigDialog(self.config) opens
open_config_dialog ==
    /\ Running /\ dialog = "none"
    /\ dialog' = "config"
    /\ mode_list' = update_mode_list(Cfg)
    /\ shown' = ""
    /\ UNCHANGED <<procVars, fileVars, trayVars, edits, ret>>

\* names typed into the Add Mode dialog
TypedNames == {"", "default", "work"}

\* add_mode's checks, with only the empty name turned down
add_mode_rejects_empty_only(mode_name, config) ==
    IF mode_name = "" THEN "Mode name cannot be empty" ELSE ""

\* add_mode's checks of the entered name: the warning shown, "" if none
add_mode_rejects(mode_name, config) ==
    IF mode_name = "" THEN "Mode name cannot be empty"
    ELSE IF mode_name \in KeySet(config) THEN "Mode already exists"
    ELSE ""

\* add_mode's loop over the four buttons: a script that is missing is
\* written and made executable, one that exists is left as it is
create_button_scripts(files, mode_name) ==
    [f \in ScriptFiles |->
        IF f.dir = mode_name /\ f.base \in Range(ButtonNames) /\ files[f] = Absent
        THEN File("exec", IF f.base = "lower_right" THEN "lr" ELSE "other")
        ELSE files[f]]

\* "Add Mode": the Add Mode dialog is accepted with a name and a color (a
\* color other than the dialog's own is picked in the color dialog, whose
\* preview renders it), or cancelled
add_mode(accepted, mode_name, color_hex) ==
    /\ Running /\ dialog = "config"
    /\ Len(Cfg) < MaxModes
    /\ icon_cache' = IF color_hex # "#3498db"
                     THEN create_mouse_icon(color_hex,
                              create_mouse_icon("#3498db", icon_cache).cache).cache
                     ELSE icon_cache
    /\ IF ~accepted
       THEN /\ shown' = ""
            /\ UNCHANGED <<CONFIG_FILE, scripts, DEFAULT_CONFIG, loaded, mode_list, edits>>
       ELSE IF add_mode_rejects(mode_name, Cfg) # ""
       THEN /\ shown' = add_mode_rejects(mode_name, Cfg)
            /\ UNCHANGED <<CONFIG_FILE, scripts, DEFAULT_CONFIG, loaded, mode_list, edits>>
       ELSE LET newcfg == SetItem(Cfg, mode_name,
                              Mode(mode_name, color_hex, StdButtons(mode_name)))
            IN  /\ scripts' = create_button_scripts(scripts, mode_name)
                /\ Mutate(newcfg)
                /\ CONFIG_FILE' = save_config(newcfg)
                /\ mode_list' = update_mode_list(newcfg)
                /\ edits' = Edited(newcfg)
                /\ shown' = ""
    /\ edits' <= MaxEdits
    /\ UNCHANGED <<procVars, MODE_FILE, readme, config_ref, mode_actions, tooltip, checked,
                   dialog, ret>>

\* d[k] for a "buttons" dict
ButtonKeys(buttons) == {buttons[i].key : i \in 1..Len(buttons)}
ButtonPath(buttons, k) == buttons[CHOOSE i \in 1..Len(buttons) : buttons[i].key = k].path

\* a path typed into the Edit Scripts dialog
TypedPath == [dir |-> "", base |-> "typed"]

\* EditScriptsDialog.get_scripts(): the four line edits, which start out as
\* the mode's four paths; `typed` says whether the first was overwritten
get_scripts(buttons, typed) ==
    [i \in 1..4 |->
        [key |-> ButtonNames[i],
         path |-> IF typed /\ i = 1 THEN TypedPath ELSE ButtonPath(buttons, ButtonNames[i])]]

\* "Edit Scripts" with row `row` selected (0: none); EditScriptsDialog reads
\* the four zone keys of the mode when it is built
edit_scripts(row, accepted, typed) ==
    /\ Running /\ dialog = "config"
    /\ row \in 0..Len(mode_list)
    /\ IF row = 0
       THEN /\ shown' = "Please select a mode"
            /\ UNCHANGED <<CONFIG_FILE, DEFAULT_CONFIG, loaded, edits>>
       ELSE LET mode_name == mode_list[row]
            IN  IF \/ LookupFails(Cfg, mode_name)
                   \/ ~(Range(ButtonNames) \subseteq ButtonKeys(Get(Cfg, mode_name).buttons))
                THEN /\ shown' = "KeyError"
                     /\ UNCHANGED <<CONFIG_FILE, DEFAULT_CONFIG, loaded, edits>>
                ELSE IF ~accepted
                THEN /\ shown' = ""
                     /\ UNCHANGED <<CONFIG_FILE, DEFAULT_CONFIG, loaded, edits>>
                ELSE LET mode == Get(Cfg, mode_name)
                         newcfg == SetItem(Cfg, mode_name,
                                      [mode EXCEPT !.buttons = get_scripts(mode.buttons, typed)])
                     IN  /\ Mutate(newcfg)
                         /\ CONFIG_FILE' = save_config(newcfg)
                         /\ edits' = Edited(newcfg)
                         /\ shown' = ""
    /\ edits' <= MaxEdits
    /\ UNCHANGED <<procVars, MODE_FILE, scripts, readme, icon_cache, config_ref,
                   mode_actions, tooltip, checked, dlgVars, ret>>

\* "Change Color" with row `row` selected (0: none): the name is read from
\* the row's text
change_color(row, accepted, color_hex) ==
    /\ Running /\ dialog = "config"
    /\ row \in 0..Len(mode_list)
    /\ IF row = 0
       THEN /\ shown' = "Please select a mode"
            /\ UNCHANGED <<CONFIG_FILE, icon_cache, DEFAULT_CONFIG, loaded, mode_list, edits>>
       ELSE LET mode_name == SplitParen(ItemText(mode_list[row]))
            IN  IF LookupFails(Cfg, mode_name)
                THEN /\ shown' = "KeyError"
                     /\ UNCHANGED <<CONFIG_FILE, icon_cache, DEFAULT_CONFIG, loaded,
                                    mode_list, edits>>
                ELSE LET current_color == ModeColor(Get(Cfg, mode_name))
                         preview == create_mouse_icon(current_color, icon_cache).cache
                     IN  IF accepted /\ QColorValid(color_hex)
                         THEN LET newcfg == SetItem(Cfg, mode_name,
                                      [Get(Cfg, mode_name) EXCEPT !.color = QColorName(color_hex)])
                              IN  /\ Mutate(newcfg)
                                  /\ CONFIG_FILE' = save_config(newcfg)
                                  /\ mode_list' = update_mode_list(newcfg)
                                  /\ icon_cache' = create_mouse_icon(color_hex, preview).cache
                                  /\ edits' = Edited(newcfg)
                                  /\ shown' = ""
                         ELSE /\ icon_cache' = preview
                              /\ shown' = ""
                              /\ UNCHANGED <<CONFIG_FILE, DEFAULT_CONFIG, loaded, mode_list, edits>>
    /\ edits' <= MaxEdits
    /\ UNCHANGED <<procVars, MODE_FILE, scripts, readme, config_ref, mode_actions,
                   tooltip, checked, dialog, ret>>

\* remove_mode's guard with no mode protected
remove_mode_protects_none(mode_name) == FALSE

\* remove_mode's guard: the mode that may not be removed
remove_mode_protects(mode_name) == mode_name = "default"

\* "Remove Mode" with row `row` selected (0: none); `reply` answers the
\* confirmation prompt when it is shown
remove_mode(row, reply) ==
    /\ Running /\ dialog = "config"
    /\ row \in 0..Len(mode_list)
    /\ IF row = 0
       THEN /\ shown' = "Please select a mode"
            /\ UNCHANGED <<CONFIG_FILE, DEFAULT_CONFIG, loaded, mode_list, edits>>
       ELSE LET mode_name == mode_list[row]
            IN  IF remove_mode_protects(mode_name)
                THEN /\ shown' = "Cannot remove the default mode"
                     /\ UNCHANGED <<CONFIG_FILE, DEFAULT_CONFIG, loaded, mode_list, edits>>
                ELSE IF reply # "Yes"
                THEN /\ shown' = "Confirm Removal"
                     /\ UNCHANGED <<CONFIG_FILE, DEFAULT_CONFIG, loaded, mode_list, edits>>
                ELSE IF LookupFails(Cfg, mode_name)
                THEN /\ shown' = "KeyError"
                     /\ UNCHANGED <<CONFIG_FILE, DEFAULT_CONFIG, loaded, mode_list, edits>>
                ELSE LET newcfg == DelItem(Cfg, mode_name)
                     IN  /\ Mutate(newcfg)
                         /\ CONFIG_FILE' = save_config(newcfg)
                         /\ mode_list' = update_mode_list(newcfg)
                         /\ edits' = Edited(newcfg)
                         /\ shown' = "Confirm Removal"
    /\ edits' <= MaxEdits
    /\ UNCHANGED <<procVars, MODE_FILE, scripts, readme, icon_cache, config_ref,
                   mode_actions, tooltip, checked, dialog, ret>>

\* mode_data["buttons"]["lower_right"] = mode_data["buttons"].pop("lower_middle")
RenameZoneKey(buttons) ==
    IF "lower_middle" \in ButtonKeys(buttons)
    THEN LET path == ButtonPath(buttons, "lower_middle")
             rest == SelectSeq(buttons, LAMBDA b : b.key # "lower_middle")
         IN  IF "lower_right" \in ButtonKeys(rest)
             THEN [i \in 1..Len(rest) |->
                      IF rest[i].key = "lower_right"
                      THEN [key |-> "lower_right", path |-> path] ELSE rest[i]]
             ELSE Append(rest, [key |-> "lower_right", path |-> path])
    ELSE buttons

\* rename_button_files' moves: files[new] gets the text of files[old] with
\* the zone replaced and is made executable, files[old] is removed
RenameScripts(files, config) ==
    [f \in ScriptFiles |->
        LET old == IF f.dir = "." THEN [dir |-> ".", base |-> "button_lower_middle"]
                   ELSE [dir |-> f.dir, base |-> "lower_middle"]
            moved == (f.dir = "." \/ f.dir \in KeySet(config)) /\ files[old] # Absent
        IN  IF moved /\ f = old THEN Absent
            ELSE IF moved /\ f.dir = "." /\ f.base = "button_lower_right"
                 THEN File("exec", ReplaceZone(files[old].text))
            ELSE IF moved /\ f.dir # "." /\ f.base = "lower_right"
                 THEN File("exec", ReplaceZone(files[old].text))
            ELSE files[f]]

\* rename_button_files' rewrite of README.md, if there is one
RenameReadme(text) == IF text = "absent" THEN text ELSE ReplaceZone(text)

\* rename_button_files' loop over config["modes"]
RenameKeys(config) ==
    [i \in 1..Len(config) |->
        [config[i] EXCEPT !.buttons = RenameZoneKey(config[i].buttons)]]

\* "Rename 'lower_middle' to 'lower_right' in all files"
rename_button_files ==
    /\ Running /\ dialog = "config"
    /\ LET newcfg == RenameKeys(Cfg)
       IN  /\ scripts' = RenameScripts(scripts, Cfg)
           /\ readme' = RenameReadme(readme)
           /\ Mutate(newcfg)
           /\ CONFIG_FILE' = save_config(newcfg)
           /\ edits' = IF scripts' # scripts \/ readme' # readme THEN edits + 1
                       ELSE Edited(newcfg)
           /\ shown' = "Success"
    /\ edits' <= MaxEdits
    /\ UNCHANGED <<procVars, MODE_FILE, icon_cache, config_ref, mode_actions, tooltip, checked,
                   dlgVars, ret>>

\* The dialog closes: by Close (exec_ returns Accepted), after which
\* open_config_dialog reloads the configuration, rebuilds the menu and
\* updates the icon; or by the window's close box or Escape (Rejected)
close_config_dialog(accepted) ==
    /\ Running /\ dialog = "config"
    /\ dialog' = "none"
    /\ mode_list' = <<>>
    /\ IF accepted
       THEN LET l == load_config(CONFIG_FILE, DEFAULT_CONFIG)
                u == update_icon(l.value, MODE_FILE, icon_cache, tooltip,
                                 Keys(l.value), {})
            IN  /\ config_ref' = l.ref
                /\ checked' = u.checked
                /\ loaded' = IF l.ref = "loaded" THEN l.value ELSE <<>>
                /\ CONFIG_FILE' = l.file
                /\ mode_actions' = Keys(l.value)
                /\ tooltip' = u.tooltip
                /\ icon_cache' = u.cache
                /\ shown' = Traceback(u)
                /\ UNCHANGED DEFAULT_CONFIG
       ELSE /\ shown' = ""
            /\ UNCHANGED <<CONFIG_FILE, icon_cache, trayVars>>
    /\ UNCHANGED <<procVars, MODE_FILE, scripts, readme, edits, ret>>

----------------------------------------------------------------------------
(* One run of the tray shell *)

\* a configuration written by hand before the zone was renamed: "default" is
\* not the first mode and the old zone key is in use
LegacyButtons(mode) ==
    [i \in 1..4 |->
        IF i = 4 THEN [key |-> "lower_middle", path |-> ScriptPath(mode, "lower_middle")]
        ELSE [key |-> ButtonNames[i], path |-> ScriptPath(mode, ButtonNames[i])]]

HandWrittenModes ==
    << Mode("alternate", "#e74c3c", LegacyButtons("alternate")),
       Mode("default", "#3498db", LegacyButtons("default")) >>

\* what CONFIG_FILE may hold when the program starts: nothing, text that is
\* not JSON, or a hand-written valid configuration (what save_config writes
\* is there after the first run)
StartFiles == { NoFile, Text("garbage", <<>>), Text("compact", HandWrittenModes) }

StartPointers == {NoPointer}

MainProc == 1

Init ==
    /\ proc = [p \in Procs |-> "idle"]
    /\ lock_holder = NoProc
    /\ CONFIG_FILE \in StartFiles
    /\ MODE_FILE \in StartPointers
    /\ scripts = IF CONFIG_FILE = Text("compact", HandWrittenModes)
                 THEN LegacyLayout ELSE CurrentLayout
    /\ readme = IF CONFIG_FILE = Text("compact", HandWrittenModes) THEN "lm" ELSE "lr"
    /\ icon_cache = {}
    /\ DEFAULT_CONFIG = BuiltinModes
    /\ loaded = <<>>
    /\ config_ref = "DEFAULT_CONFIG"
    /\ mode_actions = <<>>
    /\ tooltip = ""
    /\ checked = {}
    /\ dialog = "none"
    /\ mode_list = <<>>
    /\ edits = 0
    /\ shown = ""
    /\ ret = NoRet

Next ==
    \/ Launch(MainProc)
    \/ Tick
    \/ \E f \in WrittenPointers : ExternalPointerWrite(f)
    \/ \E f \in WrittenPointers : tray_activated(f)
    \/ \E m \in Range(mode_actions) : switch_to_mode(m)
    \/ \E a \in BOOLEAN, c \in PickColors : change_current_mode_color(a, c)
    \/ open_config_dialog
    \/ \E n \in TypedNames, c \in AddColors : add_mode(TRUE, n, c)
    \/ \E n \in {""} : add_mode(FALSE, n, "#3498db")
    \/ \E r \in 0..Len(mode_list), a \in BOOLEAN :
           \E t \in (IF a /\ r > 0 THEN BOOLEAN ELSE {FALSE}) : edit_scripts(r, a, t)
    \/ \E r \in 0..Len(mode_list), a \in BOOLEAN, c \in PickColors : change_color(r, a, c)
    \/ \E r \in 0..Len(mode_list) :
           \E y \in (IF r > 0 THEN {"Yes", "No"} ELSE {"No"}) : remove_mode(r, y)
    \/ rename_button_files
    \/ \E a \in BOOLEAN : close_config_dialog(a)
    \/ Quit(MainProc)

Spec == Init /\ [][Next]_vars

----------------------------------------------------------------------------
(* Claims about one run of the tray shell *)

\* C4: an add-mode action whose entered name is empty or names an existing
\* mode changes neither the in-memory configuration, nor the configuration
\* file, nor the script files.
C4_RejectedAddChangesNothing ==
    [][\A n \in TypedNames, c \in AddColors :
          (add_mode(TRUE, n, c) /\ (n = "" \/ n \in KeySet(Cfg))) =>
              /\ Cfg' = Cfg
              /\ DEFAULT_CONFIG' = DEFAULT_CONFIG /\ loaded' = loaded
              /\ CONFIG_FILE' = CONFIG_FILE
              /\ scripts' = scripts]_vars

\* C4 witness: the dialog has just turned down the name of an existing mode
C4_Witness ==
    /\ dialog = "config" /\ shown = "Mode already exists"
    /\ "default" \in KeySet(Cfg) /\ CONFIG_FILE = save_config(Cfg)

\* C5: a remove-mode action with "default" selected is turned down before the
\* confirmation prompt, and changes neither the in-memory configuration nor
\* the configuration file.
C5_DefaultIsNotRemoved ==
    [][\A r \in 1..Len(mode_list), y \in {"Yes", "No"} :
          (remove_mode(r, y) /\ mode_list[r] = "default") =>
              /\ shown' # "Confirm Removal"
              /\ Cfg' = Cfg
              /\ DEFAULT_CONFIG' = DEFAULT_CONFIG /\ loaded' = loaded
              /\ CONFIG_FILE' = CONFIG_FILE]_vars

\* C5 witness: the dialog has just refused to remove "default"
C5_Witness ==
    /\ dialog = "config" /\ shown = "Cannot remove the default mode"
    /\ "default" \in KeySet(Cfg)

\* C6: while the tray runs, the in-memory configuration has a mode "default".
C6_DefaultExists == Running => "default" \in KeySet(Cfg)

\* C6 witness: a mode was removed, the dialog was closed and the configuration
\* reloaded from the file; "default" is still there
C6_Witness ==
    /\ Running /\ dialog = "none" /\ config_ref = "loaded" /\ edits = 1
    /\ "alternate" \notin KeySet(Cfg) /\ "default" \in KeySet(Cfg)

FileIsBad(file) == file.fmt # "missing" /\ json_load(file).raised

\* C10: when CONFIG_FILE exists and does not parse, load_config (at startup
\* and at the reload after the dialog) returns DEFAULT_CONFIG without raising
\* and leaves the file as it is; DEFAULT_CONFIG is then still the built-in
\* default, since every handler that changes it also rewrites the file.
C10_BadFileFallsBack ==
    [][(FileIsBad(CONFIG_FILE) /\ (Launch(MainProc) \/ close_config_dialog(TRUE))) =>
          /\ ~load_config(CONFIG_FILE, DEFAULT_CONFIG).raised
          /\ config_ref' = "DEFAULT_CONFIG"
          /\ Cfg' = DEFAULT_CONFIG /\ Cfg' = BuiltinModes
          /\ CONFIG_FILE' = CONFIG_FILE
          /\ shown' = ""]_vars

\* C10 witness: the tray runs on the built-in default, the bad file untouched
C10_Witness ==
    /\ Running /\ FileIsBad(CONFIG_FILE)
    /\ config_ref = "DEFAULT_CONFIG" /\ Cfg = BuiltinModes

\* the mode the pointer file resolves to against the in-memory configuration
ResolvedMode(config, file) == get_current_mode_name(config, file).value

\* C11 as stated: switch_to_mode(m), for a mode m of the configuration,
\* leaves the position of m in the pointer file, the pointer resolving to m,
\* and the tooltip and the checked menu entry showing m when it returns.
C11_SwitchShowsMode ==
    [][\A m \in KeySet(Cfg) :
          switch_to_mode(m) =>
              /\ MODE_FILE' = PointerText(Str(ListIndex(Keys(Cfg), m)))
              /\ ResolvedMode(Cfg', MODE_FILE') = m
              /\ tooltip' = m
              /\ checked' = {m}]_vars

\* C12 as stated: whatever the pointer file holds when the timer fires (an
\* external actor's last write included), the tick leaves the tooltip and
\* the checked menu entry showing the mode the pointer file resolves to
\* against the in-memory configuration.
C12_TickShowsPointer ==
    [][Tick =>
          /\ tooltip' = ResolvedMode(Cfg, MODE_FILE)
          /\ checked' = {ResolvedMode(Cfg, MODE_FILE)}]_vars

\* C13 as stated: however the configuration dialog closes (Close, or the
\* window dismissed so that exec_ returns Rejected), the shell has reloaded
\* the configuration when the close returns: self.config is what load_config
\* gives for the file and the menu is rebuilt from it.
C13_CloseReloads ==
    [][\A a \in BOOLEAN :
          close_config_dialog(a) =>
              LET l == load_config(CONFIG_FILE, DEFAULT_CONFIG)
              IN  /\ config_ref' = l.ref
                  /\ Cfg' = l.value
                  /\ mode_actions' = Keys(l.value)]_vars

\* what CONFIG_FILE holds is exactly `config`
Persisted(file, config) ==
    /\ file.fmt # "missing"
    /\ ~json_load(file).raised
    /\ json_load(file).value = config

C15_ChangeColorSetsSelected ==
    [][\A r \in 1..Len(mode_list), c \in PickColors :
          (change_color(r, TRUE, c) /\ QColorValid(c)) =>
              /\ Keys(Cfg') = Keys(Cfg)
              /\ \A m \in KeySet(Cfg) :
                    Get(Cfg', m) = IF m = mode_list[r]
                                   THEN [Get(Cfg, m) EXCEPT !.color = QColorName(c)]
                                   ELSE Get(Cfg, m)
              /\ Persisted(CONFIG_FILE', Cfg')]_vars

\* C16 as stated: after "Add Mode" succeeds for a new non-empty name, the
\* configuration maps each of the four zones of the new mode to a script file
\* that exists and is executable, whatever the mode's directory held before.
C16_AddedScriptsExecutable ==
    [][\A n \in TypedNames, c \in AddColors :
          (add_mode(TRUE, n, c) /\ add_mode_rejects(n, Cfg) = "") =>
              /\ n \in KeySet(Cfg')
              /\ ButtonKeys(Get(Cfg', n).buttons) = Range(ButtonNames)
              /\ \A k \in Range(ButtonNames) :
                    LET path == ButtonPath(Get(Cfg', n).buttons, k)
                    IN  path \in ScriptFiles /\ scripts'[path].mode = "exec"]_vars

\* C17 as stated: a dialog step that adds a mode, or removes a mode other
\* than the one the pointer file resolves to, and leaves the pointer file
\* alone, does not change the mode name the pointer file resolves to.
C17_EditKeepsResolvedMode ==
    [][(/\ Running /\ dialog = "config"
        /\ MODE_FILE' = MODE_FILE
        /\ Keys(Cfg') # Keys(Cfg)
        /\ ResolvedMode(Cfg, MODE_FILE) \in KeySet(Cfg')) =>
           ResolvedMode(Cfg', MODE_FILE') = ResolvedMode(Cfg, MODE_FILE)]_vars

\* C19 as stated: whenever the shell runs with no dialog open, the "Switch
\* to <mode>" entries of the menu are exactly the modes of the in-memory
\* configuration.
C19_MenuMatchesModes ==
    (Running /\ dialog = "none") => Range(mode_actions) = KeySet(Cfg)

\* C20: a run of rename_button_files that completes leaves script files, a
\* README and a configuration on which a second run changes nothing, and no
\* mode of the configuration has a "lower_middle" button key.
C20_RenameIsIdempotent ==
    [][(rename_button_files /\ shown' = "Success") =>
          /\ RenameScripts(scripts', Cfg') = scripts'
          /\ RenameReadme(readme') = readme'
          /\ RenameKeys(Cfg') = Cfg'
          /\ save_config(RenameKeys(Cfg')) = CONFIG_FILE'
          /\ \A m \in KeySet(Cfg') :
                "lower_middle" \notin ButtonKeys(Get(Cfg', m).buttons)]_vars

\* C20 witness: a run on the legacy layout has moved default/lower_middle.sh
\* to lower_right.sh, rewritten the README and renamed the button keys
C20_Witness ==
    /\ Running /\ dialog = "config" /\ shown = "Success" /\ edits = 1
    /\ scripts[ScriptPath("default", "lower_middle")] = Absent
    /\ scripts[ScriptPath("default", "lower_right")] = File("exec", "lr")
    /\ scripts # LegacyLayout /\ readme = "lr"
    /\ scripts[ScriptPath("work", "upper_left")] = File("plain", "other")
    /\ "lower_right" \in ButtonKeys(Get(Cfg, "default").buttons)

----------------------------------------------------------------------------
(* Mode resolution called directly: get_current_mode_name(config) for a    *)
(* configuration and a pointer file drawn from bounded sets.               *)

ResolveNames == {"default", "alternate", "work"}

\* every ordering of every subset of ResolveNames, the empty dict included
ResolveKeyLists ==
    {ks \in UNION {[1..n -> ResolveNames] : n \in 0..3} :
        \A i, j \in 1..Len(ks) : i # j => ks[i] # ks[j]}

ResolveConfigs ==
    {[i \in 1..Len(ks) |-> Mode(ks[i], "#3498db", StdButtons(ks[i]))] : ks \in ResolveKeyLists}

PointerTexts ==
    { <<>>, <<"0">>, <<"1">>, <<"2">>, <<"3">>, <<"5">>, <<"1", "2">>, <<"-", "1">>,
      <<"-", "5">>, <<"+", "1">>, <<"1", "\n">>, <<" ", "2", " ">>, <<"x">>,
      <<"1", "x">>, <<"-">>, <<"\n">> }

PointerFiles == {NoPointer, BadPointer} \cup {PointerText(s) : s \in PointerTexts}

InitResolve ==
    /\ Untouched
    /\ config_ref = "loaded"
    /\ CONFIG_FILE = NoFile
    /\ loaded \in ResolveConfigs
    /\ MODE_FILE \in PointerFiles
    /\ ret = NoRet

CallResolve ==
    /\ ret = NoRet
    /\ LET index == get_current_mode_index(MODE_FILE)
           name == get_current_mode_name(loaded, MODE_FILE)
       IN  ret' = [fn |-> "get_current_mode_name",
                   index_raised |-> index.raised, index |-> index.value,
                   raised |-> name.raised, name |-> name.value,
                   lookup_fails |-> name.raised \/ LookupFails(loaded, name.value)]
    /\ UNCHANGED <<procVars, fileVars, trayVars, dlgVars, edits, shown>>

NextResolve == CallResolve

SpecResolve == InitResolve /\ [][NextResolve]_vars

Resolved == ret.fn = "get_current_mode_name"
PointerParses == MODE_FILE.kind = "text" /\ IntParses(Strip(MODE_FILE.chars))

\* C1: for a configuration that has the key "default", whatever the pointer
\* file holds, get_current_mode_name returns a key of config["modes"], so the
\* lookup in update_icon does not fail.
C1_NameIsKey ==
    (Resolved /\ "default" \in KeySet(loaded)) =>
        /\ ~ret.raised
        /\ ret.name \in KeySet(loaded)
        /\ ~ret.lookup_fails

\* C1 witnesses: a valid configuration resolved with a pointer that is too
\* large, and one resolved with a negative pointer
C1_Witness ==
    /\ Resolved /\ "default" \in KeySet(loaded) /\ Len(loaded) = 2
    /\ PointerParses /\ IntValue(Strip(MODE_FILE.chars)) = 2
    /\ ret.name = "default"

\* C2 as stated: an index >= the number of modes resolves to the mode at
\* index 0 of the ordered mode-name list, for every ordering of the modes.
C2_FallsBackToIndex0 ==
    (Resolved /\ PointerParses /\ IntValue(Strip(MODE_FILE.chars)) >= Len(loaded)
        /\ Len(loaded) > 0) =>
        ret.name = Keys(loaded)[1]

\* C2 amended: an index >= the number of modes resolves to the name "default",
\* whatever the ordering; that is the mode at index 0 exactly when "default"
\* is the first mode.
C2_FallsBackToDefault ==
    (Resolved /\ PointerParses /\ IntValue(Strip(MODE_FILE.chars)) >= Len(loaded)) =>
        /\ ~ret.raised
        /\ ret.name = "default"
        /\ (Len(loaded) > 0 => (ret.name = Keys(loaded)[1] <=> Keys(loaded)[1] = "default"))

\* C2 witness: "default" is the second of two modes and the pointer holds 5
C2_Witness ==
    /\ Resolved /\ Keys(loaded) = <<"alternate", "default">>
    /\ MODE_FILE = PointerText(<<"5">>)
    /\ ret.name = "default"

\* C3: a pointer file that is missing, unreadable or not an integer makes
\* get_current_mode_index return 0 without raising, and get_current_mode_name
\* then yields the first mode of the ordered mode-name list.
C3_BadPointerIsIndex0 ==
    (Resolved /\ ~PointerParses) =>
        /\ ~ret.index_raised /\ ret.index = 0
        /\ ~ret.raised
        /\ (Len(loaded) > 0 => ret.name = Keys(loaded)[1])

\* C3 witness: an unparsable pointer with a configuration whose first mode
\* is not "default"
C3_Witness ==
    /\ Resolved /\ MODE_FILE = PointerText(<<"1", "x">>)
    /\ Keys(loaded) = <<"work", "default">>
    /\ ret.name = "work"

----------------------------------------------------------------------------
(* save_config(load_config()) applied repeatedly to a configuration file   *)
(* drawn from a bounded set, with nothing else writing the file.           *)

\* number of applications of save_config(load_config())
MaxApplications == 2
\* most members listed in a generated configuration file
MaxMembers == 2

\* members a generated file may list: "default" twice with different colors,
\* so that a file can repeat a name
FileMembers ==
    { Mode("default", "#3498db", StdButtons("default")),
      Mode("default", "#e74c3c", LegacyButtons("default")),
      Mode("alternate", "#e74c3c", StdButtons("alternate")),
      Mode("work", "#2ecc71", LegacyButtons("work")) }

RoundTripFiles ==
    {NoFile, Text("garbage", <<>>), Text("repr", BuiltinModes)}
        \cup {Text(fmt, ms) : fmt \in JsonFormats,
                              ms \in UNION {[1..n -> FileMembers] : n \in 0..MaxMembers}}

InitRoundTrip ==
    /\ Untouched
    /\ CONFIG_FILE \in RoundTripFiles
    /\ MODE_FILE = NoPointer
    /\ loaded = <<>>
    /\ config_ref = "DEFAULT_CONFIG"
    /\ ret = [fn |-> "save_load", n |-> 0, start |-> CONFIG_FILE, first |-> NoFile]

\* config = load_config(); save_config(config)
SaveLoad ==
    /\ ret.fn = "save_load" /\ ret.n < MaxApplications
    /\ LET l == load_config(CONFIG_FILE, DEFAULT_CONFIG)
       IN  /\ CONFIG_FILE' = save_config(l.value)
           /\ loaded' = IF l.ref = "loaded" THEN l.value ELSE <<>>
           /\ config_ref' = l.ref
           /\ ret' = [ret EXCEPT !.n = ret.n + 1,
                                 !.first = IF ret.n = 0 THEN save_config(l.value)
                                           ELSE ret.first]
    /\ UNCHANGED <<procVars, MODE_FILE, scripts, readme, icon_cache, DEFAULT_CONFIG,
                   mode_actions, tooltip, checked, dlgVars, edits, shown>>

NextRoundTrip == SaveLoad

SpecRoundTrip == InitRoundTrip /\ [][NextRoundTrip]_vars

\* C7: after the second (and any later) application of
\* save_config(load_config()) the file holds what it held after the first,
\* whether it started as a valid configuration, as text that does not parse
\* or missing.
C7_SaveLoadIdempotent ==
    (ret.fn = "save_load" /\ ret.n >= 2) => CONFIG_FILE = ret.first

\* C7 witness: a file in another layout that lists a name twice was rewritten
\* by the first application and left alone by the second
C7_Witness ==
    /\ ret.fn = "save_load" /\ ret.n = 2
    /\ ret.start.fmt = "compact" /\ Len(ret.start.modes) > Len(CONFIG_FILE.modes)
    /\ CONFIG_FILE # ret.start /\ CONFIG_FILE = ret.first

----------------------------------------------------------------------------
(* Several launches of the program and the lock on LOCK_FILE *)

InitLock ==
    /\ Untouched
    /\ CONFIG_FILE \in {NoFile, Text("garbage", <<>>)}
    /\ MODE_FILE \in StartPointers
    /\ config_ref = "DEFAULT_CONFIG"
    /\ loaded = <<>>
    /\ ret = NoRet

NextLock ==
    \/ \E p \in Procs : Launch(p)
    \/ \E p \in Procs : Quit(p)
    \/ Tick
    \/ \E f \in WrittenPointers : ExternalPointerWrite(f)
    \/ \E m \in Range(mode_actions) : switch_to_mode(m)

SpecLock == InitLock /\ [][NextLock]_vars

TrayProcs == {p \in Procs : proc[p] = "tray"}

\* C8: at most one process runs the tray, and it holds the lock; a process
\* launched while the lock is held exits at once and touches neither the
\* tray icon nor the configuration, pointer or cache files; the lock leaves
\* its holder only when the holder ends.
C8_SingleInstance ==
    /\ [](Cardinality(TrayProcs) <= 1 /\ \A p \in TrayProcs : lock_holder = p)
    /\ [][\A p \in Procs :
             /\ (Launch(p) /\ lock_holder # NoProc) =>
                    /\ proc'[p] = "refused"
                    /\ UNCHANGED <<lock_holder, fileVars, trayVars, dlgVars>>
             /\ (lock_holder = p /\ lock_holder' # p) => proc'[p] = "ended"]_vars

\* C8 witness: one process has run and ended, a second runs the tray and
\* holds the lock, a third was launched meanwhile and turned away
C8_Witness ==
    \E p, q, r \in Procs :
        /\ proc[p] = "ended" /\ proc[q] = "tray" /\ proc[r] = "refused"
        /\ lock_holder = q /\ shown = "already running"

----------------------------------------------------------------------------
(* A sequence of icon requests: create_mouse_icon(color) as update_icon and *)
(* the color preview call it.                                               *)

\* most requests counted per color
MaxRequests == 3

\* four of basic_colors
IconColors == {"#3498db", "#e74c3c", "#2ecc71", "#f39c12"}

InitIcon ==
    /\ Untouched
    /\ CONFIG_FILE = NoFile
    /\ MODE_FILE = NoPointer
    /\ loaded = <<>>
    /\ config_ref = "DEFAULT_CONFIG"
    /\ ret = [fn |-> "create_mouse_icon",
              requests |-> [c \in IconColors |-> 0],
              draws |-> [c \in IconColors |-> 0],
              writes |-> [c \in IconColors |-> 0]]

\* pixmap = create_mouse_icon(color)
RequestIcon(color) ==
    /\ ret.fn = "create_mouse_icon" /\ ret.requests[color] < MaxRequests
    /\ LET made == create_mouse_icon(color, icon_cache)
       IN  /\ icon_cache' = made.cache
           /\ ret' = [ret EXCEPT
                 !.requests[color] = @ + 1,
                 !.draws[color] = IF made.drew THEN @ + 1 ELSE @,
                 !.writes[color] = IF made.saved THEN @ + 1 ELSE @]
    /\ UNCHANGED <<procVars, CONFIG_FILE, MODE_FILE, scripts, readme, trayVars,
                   dlgVars, edits, shown>>

NextIcon == \E c \in IconColors : RequestIcon(c)

SpecIcon == InitIcon /\ [][NextIcon]_vars

\* C9 as stated: over any sequence of icon requests the cache file of a color
\* is written once, by the first request for the color, and the glyph is not
\* drawn again for it.
C9_CacheWrittenOnce ==
    ret.fn = "create_mouse_icon" =>
        \A c \in IconColors : ret.writes[c] <= 1 /\ ret.draws[c] <= 1

----------------------------------------------------------------------------
(* One run of the tray shell beside a configuration file that something    *)
(* else removes or overwrites, so that a reload can fall back on            *)
(* DEFAULT_CONFIG after the dialog has changed the configuration.          *)

\* what is left of the file: nothing, or text that does not parse
DamagedFiles == {NoFile, Text("garbage", <<>>)}

\* another program (or the user) removes or overwrites CONFIG_FILE
ExternalConfigDamage(f) ==
    /\ Running
    /\ CONFIG_FILE # f
    /\ CONFIG_FILE' = f
    /\ shown' = ""
    /\ UNCHANGED <<procVars, MODE_FILE, scripts, readme, icon_cache, trayVars,
                   dlgVars, edits, ret>>

InitDefault ==
    /\ Untouched
    /\ CONFIG_FILE \in DamagedFiles
    /\ MODE_FILE \in StartPointers
    /\ loaded = <<>>
    /\ config_ref = "DEFAULT_CONFIG"
    /\ ret = NoRet

NextDefault ==
    \/ Launch(MainProc)
    \/ open_config_dialog
    \/ \E n \in TypedNames, c \in AddColors : add_mode(TRUE, n, c)
    \/ \E r \in 0..Len(mode_list), t \in BOOLEAN : edit_scripts(r, TRUE, t)
    \/ \E r \in 0..Len(mode_list), c \in PickColors : change_color(r, TRUE, c)
    \/ \E r \in 0..Len(mode_list) : remove_mode(r, "Yes")
    \/ \E a \in BOOLEAN : close_config_dialog(a)
    \/ \E f \in DamagedFiles : ExternalConfigDamage(f)

SpecDefault == InitDefault /\ [][NextDefault]_vars

\* C18 as stated: after any loads and dialog changes, a load_config call that
\* falls back on the built-in default (the reload after the dialog, with the
\* file missing or not parsing) returns the original modes default, alternate
\* and custom_mode with their original colors and script paths.
C18_DefaultIsConstant ==
    [][(/\ close_config_dialog(TRUE)
        /\ load_config(CONFIG_FILE, DEFAULT_CONFIG).ref = "DEFAULT_CONFIG") =>
           /\ config_ref' = "DEFAULT_CONFIG"
           /\ Cfg' = BuiltinModes]_vars

====
